---- MODULE Spec2Model ----
(***************************************************************************)
(* Dynamic safety stock optimizer: the quantitative engine                 *)
(* (utils/calculations.ts), the cost sweep of CostChart.tsx and the        *)
(* remote-with-fallback calls of services/api.ts.                          *)
(*                                                                         *)
(* Numbers.  A JavaScript number is modelled as a fixed-point integer that *)
(* counts thousandths (Scale): 127.857 is 127857.  Every operation rounds  *)
(* its exact result to the nearest thousandth, as IEEE-754 rounds to the   *)
(* nearest double; Sqrt truncates.  NaN is a value of its own that every   *)
(* operation propagates.  z-scores are kept exactly, in units of 1/50000   *)
(* (ZScale), so that the linear interpolation between two anchors loses    *)
(* nothing for a service level given in thousandths.                       *)
(*                                                                         *)
(* A service level is a double: the record [n, m] stands for the double    *)
(*     (n * 9007199254740 + m) / 2^53,                                     *)
(* n in thousandths and m the offset in units of 2^-53 (one ulp in         *)
(* [1/2, 1)).  2^53 = 9007199254740 * 1000 + 992, so the double nearest to *)
(* the decimal n/1000 has m = round(n * 992 / 1000).  This keeps what the  *)
(* accumulating loop of the cost sweep does to its service levels.         *)
(***************************************************************************)
EXTENDS Integers, Sequences, FiniteSets, TLC

VARIABLES
    config,        \* App: the SafetyStockConfig in force
    demandData,    \* App: the demand series (sequence of [date, demand])
    result,        \* the last call of calculateSafetyStock: [config, data, out]
    prevResult,    \* the call of calculateSafetyStock before that one
    costData,      \* CostChart: the swept cost points
    optimalPoint,  \* CostChart: the reported optimal point
    zCur,          \* the last application of getZScore: [arg, ret]
    zPrev,         \* the application of getZScore before that one
    pc,            \* api.ts: where each call stands
    args,          \* api.ts: the arguments each call was made with
    requests,      \* api.ts: requests each call has sent to the remote
    fallbacks,     \* api.ts: times each call has run its local fallback
    outcome,       \* api.ts: how the remote request of each call ended
    ret,           \* api.ts: what each call returned
    mc,            \* runMonteCarloSimulation: a run, trial by trial (days: the
                   \* daily samples the last trial drew; threshold: what its
                   \* total was compared with)
    passed,        \* CostChart: the configs handed to calculateSafetyStock
    csv,           \* CSVUpload: a file being parsed, line by line
    es,            \* exponentialSmoothing: a call, observation by observation
    app,           \* App: loading, what is displayed, the calculateAll in flight
    savings        \* CostChart: the cost delta shown for the current service level

vars == <<config, demandData, result, prevResult, costData, optimalPoint,
          zCur, zPrev, pc, args, requests, fallbacks, outcome, ret,
          mc, passed, csv, es, app, savings>>

None == [kind |-> "none"]

-----------------------------------------------------------------------------
(* Bounds of the model *)

MaxLen == 3          \* longest demand series
SLLow == 880         \* lowest service level tried, in thousandths
SLHigh == 1000       \* highest service level tried, in thousandths
MaxDrift == 1        \* ulps a service level may lie above its decimal
NumSimulations == 2  \* trials of one Monte Carlo run behind runSimulation
MaxLines == 9        \* most lines of an uploaded file, the header included
MaxRuns == 4         \* most trials of a Monte Carlo run followed trial by trial

-----------------------------------------------------------------------------
(* Fixed-point arithmetic *)

Scale == 1000
NaN == -2147483647
PosInf == 2147483647     \* Infinity
NegInf == -2147483646    \* -Infinity

IsNaN(x) == x = NaN

IsInf(x) == x = PosInf \/ x = NegInf

\* a / b rounded to the nearest integer, halves up (b > 0)
RoundDiv(a, b) == (a + b \div 2) \div b

Fx(i) == i * Scale

\* The operations are functions on the values of their operands, so that an
\* operand is evaluated once however often the operation uses it.

\* -x
Neg(a) ==
    LET f[x \in Int] ==
            IF IsNaN(x) THEN NaN
            ELSE IF x = PosInf THEN NegInf
            ELSE IF x = NegInf THEN PosInf ELSE 0 - x
    IN  f[a]

\* Infinity + -Infinity is NaN
Add(a, b) ==
    LET f[x \in Int, y \in Int] ==
            IF IsNaN(x) \/ IsNaN(y) THEN NaN
            ELSE IF IsInf(x) THEN (IF IsInf(y) /\ y # x THEN NaN ELSE x)
            ELSE IF IsInf(y) THEN y
            ELSE x + y
    IN  f[a, b]

Sub(a, b) == Add(a, Neg(b))

\* a * b, split so that the intermediate product stays small
Mul(a, b) ==
    LET f[x \in Int, y \in Int] ==
            IF IsNaN(x) \/ IsNaN(y) THEN NaN
            ELSE IF IsInf(x) \/ IsInf(y)
                 THEN IF x = 0 \/ y = 0 THEN NaN        \* Infinity * 0
                      ELSE IF (x > 0) = (y > 0) THEN PosInf ELSE NegInf
            ELSE (x \div Scale) * y + RoundDiv((x % Scale) * y, Scale)
    IN  f[a, b]

\* x / count for a count >= 0; 0 / 0 is NaN, x / 0 is Infinity or -Infinity
DivCount(a, n) ==
    LET f[x \in Int, k \in Int] ==
            IF IsNaN(x) THEN NaN
            ELSE IF k = 0
                 THEN IF x = 0 THEN NaN ELSE IF x > 0 THEN PosInf ELSE NegInf
            ELSE IF IsInf(x) THEN x
            ELSE RoundDiv(x, k)
    IN  f[a, n]

\* r * r <= a, exactly
SqLeq(r, a) ==
    LET hi == (r \div Scale) * r + ((r % Scale) * r) \div Scale
        lo == ((r % Scale) * r) % Scale
    IN  hi < a \/ (hi = a /\ lo = 0)

SqrtAbove[a \in Int, h \in Int] ==
    IF SqLeq(h, a) THEN SqrtAbove[a, 2 * h] ELSE h

SqrtSearch[a \in Int, lo \in Int, hi \in Int] ==
    IF hi - lo <= 1 THEN lo
    ELSE LET mid == (lo + hi) \div 2
         IN  IF SqLeq(mid, a) THEN SqrtSearch[a, mid, hi]
                              ELSE SqrtSearch[a, lo, mid]

\* Math.sqrt: NaN for NaN and for a negative argument
Sqrt(a) ==
    LET f[x \in Int] ==
            IF IsNaN(x) \/ x < 0 THEN NaN
            ELSE IF x = PosInf THEN PosInf
            ELSE SqrtSearch[x, 0, SqrtAbove[x, 1]]
    IN  f[a]

\* Math.pow(x, 2)
Pow2(a) == LET f[x \in Int] == Mul(x, x) IN f[a]

\* Math.round(x): nearest integer, halves towards +Infinity
Round(a) ==
    LET f[x \in Int] ==
            IF IsNaN(x) \/ IsInf(x) THEN x ELSE RoundDiv(x, Scale) * Scale
    IN  f[a]

\* a rounding that keeps one decimal
Round1(a) ==
    LET f[x \in Int] ==
            IF IsNaN(x) \/ IsInf(x) THEN x
            ELSE RoundDiv(x, Scale \div 10) * (Scale \div 10)
    IN  f[a]

\* Math.round(x * 100) / 100
Round2(a) ==
    LET f[x \in Int] ==
            IF IsNaN(x) \/ IsInf(x) THEN x
            ELSE RoundDiv(x, Scale \div 100) * (Scale \div 100)
    IN  f[a]

\* Math.max(0, x)
Max0(a) ==
    LET f[x \in Int] == IF IsNaN(x) THEN NaN ELSE IF x < 0 THEN 0 ELSE x
    IN  f[a]

-----------------------------------------------------------------------------
(* Service levels as doubles *)

\* offset of the double nearest to n/1000
Nearest(n) == RoundDiv(n * 992, 1000)

\* the number literal n/1000 (also newLevel / 100 of the slider)
Dbl(n) == [n |-> n, m |-> Nearest(n)]

DblLeq(a, b) == a.n < b.n \/ (a.n = b.n /\ a.m <= b.m)

\* sl += 0.005.  The literal 0.005 is (5 * 9007199254740 + 635/128) / 2^53;
\* the sum is rounded to the nearest multiple of 2^-53.
DblAddStep(a) == [n |-> a.n + 5, m |-> a.m + RoundDiv(635, 128)]

\* the decimal value of a service level, in thousandths (the drift of a few
\* 2^-53 is far below the fixed-point resolution)
SLValue(sl) == sl.n

-----------------------------------------------------------------------------
(* getZScore *)

ZScale == 50000
ZUnit == ZScale \div Scale

keys == <<900, 950, 960, 970, 980, 990, 995>>

\* the table with the digits of one entry exchanged (0.97: 1.188)
serviceLevelMapTypo ==
    (900 :> 1282 * ZUnit) @@ (950 :> 1645 * ZUnit) @@ (960 :> 1751 * ZUnit) @@
    (970 :> 1188 * ZUnit) @@ (980 :> 2054 * ZUnit) @@ (990 :> 2326 * ZUnit) @@
    (995 :> 2576 * ZUnit)

serviceLevelMap ==
    (900 :> 1282 * ZUnit) @@ (950 :> 1645 * ZUnit) @@ (960 :> 1751 * ZUnit) @@
    (970 :> 1881 * ZUnit) @@ (980 :> 2054 * ZUnit) @@ (990 :> 2326 * ZUnit) @@
    (995 :> 2576 * ZUnit)

\* the interpolation with the two weights exchanged
InterpolateSwapped(serviceLevel, i) ==
    LET k0 == keys[i]
        k1 == keys[i + 1]
        s  == SLValue(serviceLevel)
    IN  (serviceLevelMap[k0] * (s - k0) + serviceLevelMap[k1] * (k1 - s))
            \div (k1 - k0)

\* serviceLevelMap[keys[i]] * (1 - t) + serviceLevelMap[keys[i + 1]] * t
\* with t = (serviceLevel - keys[i]) / (keys[i + 1] - keys[i])
Interpolate(serviceLevel, i) ==
    LET k0 == keys[i]
        k1 == keys[i + 1]
        s  == SLValue(serviceLevel)
    IN  (serviceLevelMap[k0] * (k1 - s) + serviceLevelMap[k1] * (s - k0))
            \div (k1 - k0)

InInterval(serviceLevel, i) ==
    /\ DblLeq(Dbl(keys[i]), serviceLevel)
    /\ DblLeq(serviceLevel, Dbl(keys[i + 1]))

\* the default for extreme values, without the test of the side
ExtremeLow(serviceLevel) == serviceLevelMap[900]

Extreme(serviceLevel) ==
    IF DblLeq(Dbl(995), serviceLevel) THEN serviceLevelMap[995]
                                      ELSE serviceLevelMap[900]

getZScore(serviceLevel) ==
    IF \E k \in DOMAIN serviceLevelMap : serviceLevel = Dbl(k)
    THEN serviceLevelMap[serviceLevel.n]
    ELSE IF \E i \in 1..(Len(keys) - 1) : InInterval(serviceLevel, i)
         THEN LET i == CHOOSE j \in 1..(Len(keys) - 1) :
                          /\ InInterval(serviceLevel, j)
                          /\ \A h \in 1..(j - 1) : ~InInterval(serviceLevel, h)
              IN  Interpolate(serviceLevel, i)
         ELSE Extreme(serviceLevel)

-----------------------------------------------------------------------------
(* mean, stdDev *)

RECURSIVE SumSeq(_)
SumSeq(arr) == IF arr = <<>> THEN 0 ELSE Add(Head(arr), SumSeq(Tail(arr)))

\* arr.reduce((sum, val) => sum + val, 0) / arr.length
mean(arr) == DivCount(SumSeq(arr), Len(arr))

\* the sample standard deviation: divides by N - 1
stdDevSample(arr) ==
    LET avg == mean(arr)
        squareDiffs == [i \in 1..Len(arr) |-> Pow2(Sub(arr[i], avg))]
    IN  Sqrt(DivCount(SumSeq(squareDiffs), Len(arr) - 1))

stdDev(arr) ==
    LET avg == mean(arr)
        squareDiffs == [i \in 1..Len(arr) |-> Pow2(Sub(arr[i], avg))]
        avgSquareDiff == mean(squareDiffs)
    IN  Sqrt(avgSquareDiff)

-----------------------------------------------------------------------------
(* calculateSafetyStock *)

Demands(data) == [i \in 1..Len(data) |-> data[i].demand]

\* z * x for a z-score z (units of 1/ZScale) and a fixed-point x
MulZ(z, x) ==
    LET f[u \in Int, v \in Int] ==
            IF IsNaN(v) \/ IsInf(v) THEN v
            ELSE RoundDiv((u \div ZUnit) * v + RoundDiv((u % ZUnit) * v, ZUnit),
                          Scale)
    IN  f[z, x]

\* z * sqrt(LT * varD + D^2 * varLT)
SafetyStockFormula(z, leadTime, demandVariance, avgDemand, leadTimeVariance) ==
    MulZ(z, Sqrt(Add(Mul(leadTime, demandVariance),
                     Mul(Pow2(avgDemand), leadTimeVariance))))

\* a reorder point taken from the safety stock as it is reported
ReorderPointOfReported(avgDemand, leadTime, safetyStock) ==
    Add(Mul(avgDemand, leadTime), Round(safetyStock))

\* avgDemand * config.leadTime + safetyStock
ReorderPoint(avgDemand, leadTime, safetyStock) ==
    Add(Mul(avgDemand, leadTime), safetyStock)

\* a total that leaves the stockout cost out
TotalCostHoldingOnly(expectedAnnualHoldingCost, expectedAnnualStockoutCost) ==
    expectedAnnualHoldingCost

\* expectedAnnualHoldingCost + expectedAnnualStockoutCost
TotalCost(expectedAnnualHoldingCost, expectedAnnualStockoutCost) ==
    Add(expectedAnnualHoldingCost, expectedAnnualStockoutCost)

calculateSafetyStock(cfg, data) ==
    LET demands == Demands(data)
        avgDemand == mean(demands)
        demandStdDev == stdDev(demands)
        z == getZScore(cfg.serviceLevel)
        leadTimeVariance == Pow2(cfg.leadTimeStdDev)
        demandVariance == Pow2(demandStdDev)
        safetyStock == SafetyStockFormula(z, cfg.leadTime, demandVariance,
                                          avgDemand, leadTimeVariance)
        reorderPoint == ReorderPoint(avgDemand, cfg.leadTime, safetyStock)
        expectedAnnualHoldingCost == Mul(safetyStock, cfg.holdingCostPerUnit)
        stockoutProbability == Sub(Fx(1), SLValue(cfg.serviceLevel))
        expectedDailyDemand == avgDemand
        expectedAnnualDemand == Mul(expectedDailyDemand, Fx(365))
        expectedStockoutUnits == Mul(expectedAnnualDemand, stockoutProbability)
        expectedAnnualStockoutCost ==
            Mul(expectedStockoutUnits, cfg.stockoutCostPerUnit)
        totalCost == TotalCost(expectedAnnualHoldingCost,
                               expectedAnnualStockoutCost)
    IN  [ safetyStock |-> Round(safetyStock),
          reorderPoint |-> Round(reorderPoint),
          averageDemand |-> Round2(avgDemand),
          demandStdDev |-> Round2(demandStdDev),
          stockoutProbability |->
              DivCount(Round(Mul(stockoutProbability, Fx(10000))), 100),
          expectedAnnualHoldingCost |-> Round(expectedAnnualHoldingCost),
          expectedAnnualStockoutCost |-> Round(expectedAnnualStockoutCost),
          totalCost |-> Round(totalCost),
          serviceLevel |-> Mul(SLValue(cfg.serviceLevel), Fx(100)) ]

-----------------------------------------------------------------------------
(* The cost sweep of CostChart *)

\* for (let sl = 0.90; sl <= 0.995; sl += 0.005) serviceLevels.push(sl)
RECURSIVE PushLevels(_)
PushLevels(sl) ==
    IF DblLeq(sl, Dbl(995)) THEN <<sl>> \o PushLevels(DblAddStep(sl))
                            ELSE <<>>

serviceLevels == PushLevels(Dbl(900))

\* (x).toFixed(1), as the number of tenths
ToFixed1(x) == RoundDiv(x, Scale \div 10)

\* a < b on numbers: false when either is NaN
Lt(a, b) == ~IsNaN(a) /\ ~IsNaN(b) /\ a < b

\* a <= b on numbers: false when either is NaN
Leq(a, b) == ~IsNaN(a) /\ ~IsNaN(b) /\ a <= b

\* { ...config, serviceLevel: sl }
TempConfig(cfg, sl) == [cfg EXCEPT !.serviceLevel = sl]

CostPoint(cfg, data, sl) ==
    LET tempConfig == TempConfig(cfg, sl)
        res == calculateSafetyStock(tempConfig, data)
    IN  [ serviceLevel |-> ToFixed1(Mul(SLValue(sl), Fx(100))),
          serviceLevelNum |-> sl,
          holdingCost |-> res.expectedAnnualHoldingCost,
          stockoutCost |-> res.expectedAnnualStockoutCost,
          totalCost |-> res.totalCost ]

CostData(cfg, data) ==
    [i \in 1..Len(serviceLevels) |-> CostPoint(cfg, data, serviceLevels[i])]

\* the reducer that keeps the later of two equal points
PickLast(min, curr) == IF Leq(curr.totalCost, min.totalCost) THEN curr ELSE min

\* (min, curr) => curr.totalCost < min.totalCost ? curr : min
Pick(min, curr) == IF Lt(curr.totalCost, min.totalCost) THEN curr ELSE min

\* points.reduce(Pick) without an initial value, folded from the left
RECURSIVE Reduce(_, _)
Reduce(min, rest) ==
    IF rest = <<>> THEN min ELSE Reduce(Pick(min, Head(rest)), Tail(rest))

OptimalPoint(points) == Reduce(Head(points), Tail(points))

-----------------------------------------------------------------------------
(* Inputs *)

DemandValues == {0, Fx(10), Fx(14)}

\* a series of len consecutive days
SeriesOfLength(len) ==
    { [i \in 1..len |-> [date |-> i, demand |-> ds[i]]] :
          ds \in [1..len -> DemandValues] }

SeriesSet == UNION { SeriesOfLength(len) : len \in 0..MaxLen }

\* positions of the service-level slider, in tenths of a percent
SliderLevels == {900, 905, 945, 950, 995}

Configs ==
    [ serviceLevel : {Dbl(950)},
      leadTime : {Fx(2), 1500},
      leadTimeStdDev : {0, 1500},
      reviewPeriod : {Fx(1)},
      holdingCostPerUnit : {0, Fx(5)},
      stockoutCostPerUnit : {0, Fx(50)} ]

-----------------------------------------------------------------------------
(* The engine, called by the application *)

Returned(r) == r.kind = "returned"

\* App.handleServiceLevelChange: setConfig({...config, serviceLevel: newLevel / 100})
handleServiceLevelChange(newLevel) ==
    /\ config' = [config EXCEPT !.serviceLevel = Dbl(newLevel)]
    /\ UNCHANGED <<demandData, result, prevResult, costData, optimalPoint,
                   zCur, zPrev, pc, args, requests, fallbacks, outcome, ret,
                   mc, passed, csv, es, app, savings>>

\* a call whose result keeps something of the call before it
CallCarryOver ==
    /\ prevResult' = result
    /\ result' =
          [ kind |-> "returned", cfg |-> config, data |-> demandData,
            out |-> [calculateSafetyStock(config, demandData) EXCEPT
                        !.safetyStock = IF result = None THEN @ ELSE Add(@, Fx(1))] ]
    /\ UNCHANGED <<config, demandData, costData, optimalPoint,
                   zCur, zPrev, pc, args, requests, fallbacks, outcome, ret,
                   mc, passed, csv, es, app, savings>>

\* a call calculateSafetyStock(config, demandData); the function has no
\* throw statement and reads no property of a missing element
CallCalculateSafetyStock ==
    /\ prevResult' = result
    /\ result' = [ kind |-> "returned", cfg |-> config, data |-> demandData,
                   out |-> calculateSafetyStock(config, demandData) ]
    /\ UNCHANGED <<config, demandData, costData, optimalPoint,
                   zCur, zPrev, pc, args, requests, fallbacks, outcome, ret,
                   mc, passed, csv, es, app, savings>>

\* the configurations that the sweep hands to calculateSafetyStock
PassedConfigs(cfg) ==
    [i \in 1..Len(serviceLevels) |-> TempConfig(cfg, serviceLevels[i])]

\* currentCost ? currentCost.totalCost - optimalPoint.totalCost : 0, where
\* currentCost is the first point whose label is currentSL
SavingsVsOptimal(points, optimal, currentServiceLevel) ==
    LET currentSL == ToFixed1(Mul(SLValue(currentServiceLevel), Fx(100)))
        found == { i \in 1..Len(points) : points[i].serviceLevel = currentSL }
        first == CHOOSE i \in found : \A j \in found : i <= j
    IN  IF found = {} THEN 0
        ELSE Sub(points[first].totalCost, optimal.totalCost)

\* a sweep that writes each service level into config itself
RenderCostChartInPlace ==
    /\ costData' = CostData(config, demandData)
    /\ optimalPoint' = OptimalPoint(costData')
    /\ passed' = PassedConfigs(config)
    /\ savings' = [ currentServiceLevel |-> config.serviceLevel,
                    savingsVsOptimal |->
                        SavingsVsOptimal(costData', optimalPoint',
                                         config.serviceLevel) ]
    /\ config' = passed'[Len(passed')]
    /\ UNCHANGED <<demandData, result, prevResult,
                   zCur, zPrev, pc, args, requests, fallbacks, outcome, ret,
                   mc, csv, es, app>>

\* CostChart renders: costData and optimalPoint
RenderCostChart ==
    /\ costData' = CostData(config, demandData)
    /\ optimalPoint' = OptimalPoint(costData')
    /\ passed' = PassedConfigs(config)
    /\ savings' = [ currentServiceLevel |-> config.serviceLevel,
                    savingsVsOptimal |->
                        SavingsVsOptimal(costData', optimalPoint',
                                         config.serviceLevel) ]
    /\ UNCHANGED <<config, demandData, result, prevResult,
                   zCur, zPrev, pc, args, requests, fallbacks, outcome, ret,
                   mc, csv, es, app>>

Init ==
    /\ config \in Configs
    /\ demandData \in SeriesSet
    /\ result = None
    /\ prevResult = None
    /\ costData = <<>>
    /\ optimalPoint = None
    /\ zCur = None
    /\ zPrev = None
    /\ pc = None
    /\ args = None
    /\ requests = None
    /\ fallbacks = None
    /\ outcome = None
    /\ ret = None
    /\ mc = None
    /\ passed = <<>>
    /\ csv = None
    /\ es = None
    /\ app = None
    /\ savings = None

Next ==
    \/ \E newLevel \in SliderLevels : handleServiceLevelChange(newLevel)
    \/ CallCalculateSafetyStock

Spec == Init /\ [][Next]_vars

\* the configuration the application starts with
DefaultConfig ==
    [ serviceLevel |-> Dbl(950),
      leadTime |-> Fx(7),
      leadTimeStdDev |-> 1500,
      reviewPeriod |-> Fx(1),
      holdingCostPerUnit |-> Fx(5),
      stockoutCostPerUnit |-> Fx(50) ]

\* the seven days of the sample CSV
SampleDemands == <<120, 135, 128, 142, 115, 130, 125>>

SampleSeries ==
    [i \in 1..Len(SampleDemands) |-> [date |-> i, demand |-> Fx(SampleDemands[i])]]

SampleInit ==
    /\ config = DefaultConfig
    /\ demandData = SampleSeries
    /\ result = None
    /\ prevResult = None
    /\ costData = <<>>
    /\ optimalPoint = None
    /\ zCur = None
    /\ zPrev = None
    /\ pc = None
    /\ args = None
    /\ requests = None
    /\ fallbacks = None
    /\ outcome = None
    /\ ret = None
    /\ mc = None
    /\ passed = <<>>
    /\ csv = None
    /\ es = None
    /\ app = None
    /\ savings = None

SampleSpec == SampleInit /\ [][Next]_vars

SweepNext ==
    \/ \E newLevel \in SliderLevels : handleServiceLevelChange(newLevel)
    \/ RenderCostChart

SweepSpec == Init /\ [][SweepNext]_vars

-----------------------------------------------------------------------------
(* The application of getZScore to service levels *)

ServiceLevels ==
    { [n |-> k, m |-> Nearest(k) + d] : k \in SLLow..SLHigh, d \in 0..MaxDrift }

ZApplied(z) == z.kind = "applied"

\* two applications are kept, and two are made
ApplyGetZScore(sl) ==
    /\ ~ZApplied(zPrev)
    /\ zPrev' = zCur
    /\ zCur' = [kind |-> "applied", arg |-> sl, ret |-> getZScore(sl)]
    /\ UNCHANGED <<config, demandData, result, prevResult, costData,
                   optimalPoint, pc, args, requests, fallbacks, outcome, ret,
                   mc, passed, csv, es, app, savings>>

ZInit ==
    /\ zCur = None
    /\ zPrev = None
    /\ config = None
    /\ demandData = <<>>
    /\ result = None
    /\ prevResult = None
    /\ costData = <<>>
    /\ optimalPoint = None
    /\ pc = None
    /\ args = None
    /\ requests = None
    /\ fallbacks = None
    /\ outcome = None
    /\ ret = None
    /\ mc = None
    /\ passed = <<>>
    /\ csv = None
    /\ es = None
    /\ app = None
    /\ savings = None

ZNext == \E sl \in ServiceLevels : ApplyGetZScore(sl)

ZSpec == ZInit /\ [][ZNext]_vars

-----------------------------------------------------------------------------
(* runMonteCarloSimulation *)

\* iterations of for (let day = 0; day < leadTime; day++)
DaysOf(leadTime) == IF leadTime <= 0 THEN 0 ELSE (leadTime + Scale - 1) \div Scale

\* [...simulations].sort((a, b) => a - b): the sort is stable, and a
\* comparison that gives NaN (a NaN operand, Infinity - Infinity) counts as
\* equal, so x goes in front of the sorted rest unless an element is less
RECURSIVE Insert(_, _)
Insert(x, sorted) ==
    IF sorted = <<>> THEN <<x>>
    ELSE IF ~Lt(Head(sorted), x) THEN <<x>> \o sorted
         ELSE <<Head(sorted)>> \o Insert(x, Tail(sorted))

RECURSIVE SortAscending(_)
SortAscending(xs) ==
    IF xs = <<>> THEN <<>> ELSE Insert(Head(xs), SortAscending(Tail(xs)))

\* rnd[i][day] is the standard normal deviate z0 that the Box-Muller
\* transform makes of the two Math.random() draws of trial i, day `day`
runMonteCarloSimulation(cfg, data, numSimulations, rnd) ==
    LET demands == Demands(data)
        avgDemand == mean(demands)
        demandStdDev == stdDev(demands)
        safetyStockResult == calculateSafetyStock(cfg, data)
        availableInventory == safetyStockResult.safetyStock
        days == DaysOf(cfg.leadTime)
        dailyDemand(i, day) == Add(avgDemand, Mul(rnd[i][day], demandStdDev))
        totalDemand(i) ==
            SumSeq([day \in 1..days |-> Max0(dailyDemand(i, day))])
        simulations == [i \in 1..numSimulations |-> totalDemand(i)]
        threshold == Add(availableInventory, Mul(avgDemand, cfg.leadTime))
        stockoutCount ==
            Cardinality({i \in 1..numSimulations : Lt(threshold, simulations[i])})
        sortedSimulations == SortAscending(simulations)
        getPercentile(q) ==
            LET index == (q * Len(sortedSimulations)) \div 100
            IN  sortedSimulations[index + 1]
    IN  [ simulations |-> sortedSimulations,
          stockoutCount |-> stockoutCount,
          stockoutProbability |->
              Mul(DivCount(Fx(stockoutCount), numSimulations), Fx(100)),
          meanDemand |-> mean(simulations),
          percentiles |-> [ p50 |-> getPercentile(50),
                            p75 |-> getPercentile(75),
                            p90 |-> getPercentile(90),
                            p95 |-> getPercentile(95),
                            p99 |-> getPercentile(99) ] ]

-----------------------------------------------------------------------------
(* exponentialSmoothing *)

\* a smoothing that does not weigh the level it carries
RECURSIVE SmoothUnweighted(_, _, _, _)
SmoothUnweighted(demands, alpha, i, smoothed) ==
    IF i > Len(demands) THEN smoothed
    ELSE SmoothUnweighted(demands, alpha, i + 1,
                          Add(Mul(alpha, demands[i]), smoothed))

\* smoothed = alpha * demands[i] + (1 - alpha) * smoothed, for i = 1 ..
RECURSIVE Smooth(_, _, _, _)
Smooth(demands, alpha, i, smoothed) ==
    IF i > Len(demands) THEN smoothed
    ELSE Smooth(demands, alpha, i + 1,
                Add(Mul(alpha, demands[i]), Mul(Sub(Fx(1), alpha), smoothed)))

\* for a non-empty series; data[data.length - 1].date of an empty one throws
exponentialSmoothing(data, alpha, periods) ==
    LET demands == Demands(data)
        smoothed == Smooth(demands, alpha, 2, demands[1])
        lastDate == data[Len(data)].date
    IN  [ i \in 1..periods |->
              [ date |-> lastDate + i,
                demand |-> Round(smoothed),
                forecast |-> Round(smoothed) ] ]

-----------------------------------------------------------------------------
(* services/api.ts: a remote request, and the local equivalent when it fails *)

ApiTimeout == 30000   \* timeout: 30000, in milliseconds

\* a client created without a timeout
NoTimeout == FALSE

\* axios.create({ timeout }): a request that is not answered is aborted
HasTimeout == ApiTimeout > 0

Periods == 2         \* horizon asked of getForecast

Calls == {"getForecast", "calculateOptimalSafetyStock", "runSimulation"}

FailureKinds == {"timeout", "unreachable", "nonSuccess"}

RemoteResponses == { [remote |-> "response.data"] }

\* the standard normal deviates a trial may draw
Normals == {-Fx(1), Fx(2)}

\* what the random source may give a call: one deviate for each day of each
\* trial of the local simulation; the other calls draw nothing
RandomSources(c, a) ==
    IF c = "runSimulation"
    THEN [1..NumSimulations -> [1..DaysOf(a.cfg.leadTime) -> Normals]]
    ELSE {<<>>}

\* a catch block whose bounds widen with the distance of the day
getForecastFallbackWidening(data, periods) ==
    LET forecast == exponentialSmoothing(data, 300, periods)
        demands == Demands(data)
        avg == DivCount(SumSeq(demands), Len(demands))
        variance ==
            DivCount(SumSeq([i \in 1..Len(demands) |-> Pow2(Sub(demands[i], avg))]),
                     Len(demands))
        sd == Sqrt(variance)
    IN  [ historical |-> data,
          forecast |-> forecast,
          demandMean |-> avg,
          demandStdDev |-> sd,
          confidence |->
              [ lower |-> [i \in 1..Len(forecast) |->
                               Sub(forecast[i].demand, Mul(Fx(i), Mul(1960, sd)))],
                upper |-> [i \in 1..Len(forecast) |->
                               Add(forecast[i].demand, Mul(Fx(i), Mul(1960, sd)))] ] ]

\* the catch block of getForecast
getForecastFallback(data, periods) ==
    LET forecast == exponentialSmoothing(data, 300, periods)
        demands == Demands(data)
        avg == DivCount(SumSeq(demands), Len(demands))
        variance ==
            DivCount(SumSeq([i \in 1..Len(demands) |-> Pow2(Sub(demands[i], avg))]),
                     Len(demands))
        sd == Sqrt(variance)
    IN  [ historical |-> data,
          forecast |-> forecast,
          demandMean |-> avg,
          demandStdDev |-> sd,
          confidence |->
              [ lower |-> [i \in 1..Len(forecast) |->
                               Sub(forecast[i].demand, Mul(1960, sd))],
                upper |-> [i \in 1..Len(forecast) |->
                               Add(forecast[i].demand, Mul(1960, sd))] ] ]

\* what the catch block of call c evaluates to: a value it returns, or the
\* TypeError that exponentialSmoothing raises on an empty series
Fallback(c, a, rnd) ==
    CASE c = "getForecast" ->
             IF a.data = <<>> THEN [kind |-> "TypeError"]
             ELSE [kind |-> "local", data |-> getForecastFallback(a.data, Periods)]
      [] c = "calculateOptimalSafetyStock" ->
             [kind |-> "local", data |-> calculateSafetyStock(a.cfg, a.data)]
      [] c = "runSimulation" ->
             [ kind |-> "local",
               data |-> runMonteCarloSimulation(a.cfg, a.data, NumSimulations, rnd) ]

Settled(c) == pc[c] \in {"returned", "threw"}

\* the call: the function runs up to its await, the request is on its way
Invoke(c) ==
    /\ pc[c] # "awaiting"
    /\ pc' = [pc EXCEPT ![c] = "awaiting"]
    /\ args' = [args EXCEPT ![c] = [cfg |-> config, data |-> demandData]]
    /\ requests' = [requests EXCEPT ![c] = 1]
    /\ fallbacks' = [fallbacks EXCEPT ![c] = 0]
    /\ outcome' = [outcome EXCEPT ![c] = [kind |-> "pending"]]
    /\ ret' = [ret EXCEPT ![c] = None]
    /\ UNCHANGED <<config, demandData, result, prevResult, costData,
                   optimalPoint, zCur, zPrev,
                   mc, passed, csv, es, app, savings>>

\* return response.data
RemoteSucceeds(c, d) ==
    /\ pc[c] = "awaiting"
    /\ pc' = [pc EXCEPT ![c] = "returned"]
    /\ outcome' = [outcome EXCEPT ![c] = [kind |-> "success", data |-> d]]
    /\ ret' = [ret EXCEPT ![c] = [kind |-> "remote", data |-> d]]
    /\ UNCHANGED <<config, demandData, result, prevResult, costData,
                   optimalPoint, zCur, zPrev, args, requests, fallbacks,
                   mc, passed, csv, es, app, savings>>

\* a catch block that lets the error through
CatchRethrow(c, kind, rnd) ==
    /\ pc' = [pc EXCEPT ![c] = "threw"]
    /\ outcome' = [outcome EXCEPT ![c] = [kind |-> kind, rnd |-> rnd]]
    /\ ret' = [ret EXCEPT ![c] = [kind |-> kind]]
    /\ UNCHANGED <<config, demandData, result, prevResult, costData,
                   optimalPoint, zCur, zPrev, args, requests, fallbacks,
                   mc, passed, csv, es, app, savings>>

\* a catch block that sends the request again
CatchRetry(c, kind, rnd) ==
    /\ requests' = [requests EXCEPT ![c] = IF @ < 2 THEN @ + 1 ELSE @]
    /\ outcome' = [outcome EXCEPT ![c] = [kind |-> kind, rnd |-> rnd]]
    /\ UNCHANGED <<config, demandData, result, prevResult, costData,
                   optimalPoint, zCur, zPrev, pc, args, fallbacks, ret,
                   mc, passed, csv, es, app, savings>>

\* catch (error) { ... }: the local equivalent, computed once
Catch(c, kind, rnd) ==
    LET local == Fallback(c, args[c], rnd)
    IN  /\ pc' = [pc EXCEPT ![c] = IF local.kind = "local" THEN "returned"
                                                         ELSE "threw"]
        /\ fallbacks' = [fallbacks EXCEPT ![c] = @ + 1]
        /\ outcome' = [outcome EXCEPT ![c] = [kind |-> kind, rnd |-> rnd]]
        /\ ret' = [ret EXCEPT ![c] = local]
        /\ UNCHANGED <<config, demandData, result, prevResult, costData,
                       optimalPoint, zCur, zPrev, args, requests,
                   mc, passed, csv, es, app, savings>>

\* the request fails: no connection, or a response outside 2xx
RemoteFails(c, kind) ==
    /\ pc[c] = "awaiting"
    /\ kind \in {"unreachable", "nonSuccess"}
    /\ \E rnd \in RandomSources(c, args[c]) : Catch(c, kind, rnd)

\* no answer within the timeout of the client
Timeout(c) ==
    /\ HasTimeout
    /\ pc[c] = "awaiting"
    /\ \E rnd \in RandomSources(c, args[c]) : Catch(c, "timeout", rnd)

ApiConfigs ==
    [ serviceLevel : {Dbl(950)},
      leadTime : {Fx(1), 1500},
      leadTimeStdDev : {1500},
      reviewPeriod : {Fx(1)},
      holdingCostPerUnit : {Fx(5)},
      stockoutCostPerUnit : {Fx(50)} ]

ApiSeries ==
    { d \in SeriesSet : Len(d) <= 2 /\ \A i \in 1..Len(d) : d[i].demand > 0 }

ApiInit ==
    /\ config \in ApiConfigs
    /\ demandData \in ApiSeries
    /\ result = None
    /\ prevResult = None
    /\ costData = <<>>
    /\ optimalPoint = None
    /\ zCur = None
    /\ zPrev = None
    /\ pc = [c \in Calls |-> "idle"]
    /\ args = [c \in Calls |-> None]
    /\ requests = [c \in Calls |-> 0]
    /\ fallbacks = [c \in Calls |-> 0]
    /\ outcome = [c \in Calls |-> None]
    /\ ret = [c \in Calls |-> None]
    /\ mc = None
    /\ passed = <<>>
    /\ csv = None
    /\ es = None
    /\ app = None
    /\ savings = None

\* the steps of the calls cs, which run independently of each other
\* (Promise.all in calculateAll)
StepOf(cs) ==
    \E c \in cs :
        \/ Invoke(c)
        \/ \E d \in RemoteResponses : RemoteSucceeds(c, d)
        \/ \E kind \in FailureKinds : RemoteFails(c, kind)
        \/ Timeout(c)

ApiNext == StepOf(Calls)

ApiSpec == ApiInit /\ [][ApiNext]_vars

\* the calls that draw no random numbers
FairNext == StepOf({"getForecast", "calculateOptimalSafetyStock"})

\* the timer of the client runs whatever the remote does
FairApiSpec ==
    ApiInit /\ [][FairNext]_vars /\ WF_vars(Timeout("getForecast"))

MinRows == 7         \* data.length < 7: the shortest series the upload accepts

\* len days of the same demand
FlatSeries(len, demand) == [i \in 1..len |-> [date |-> i, demand |-> demand]]

\* the calls on an uploaded series of the shortest length and of demand 100
FlatInit ==
    /\ config \in ApiConfigs
    /\ demandData = FlatSeries(MinRows, Fx(100))
    /\ result = None
    /\ prevResult = None
    /\ costData = <<>>
    /\ optimalPoint = None
    /\ zCur = None
    /\ zPrev = None
    /\ pc = [c \in Calls |-> "idle"]
    /\ args = [c \in Calls |-> None]
    /\ requests = [c \in Calls |-> 0]
    /\ fallbacks = [c \in Calls |-> 0]
    /\ outcome = [c \in Calls |-> None]
    /\ ret = [c \in Calls |-> None]
    /\ mc = None
    /\ passed = <<>>
    /\ csv = None
    /\ es = None
    /\ app = None
    /\ savings = None

FlatApiSpec == FlatInit /\ [][ApiNext]_vars

-----------------------------------------------------------------------------
(* runMonteCarloSimulation, trial by trial *)

\* z0 = Math.sqrt(-2 * Math.log(u1)) * Math.cos(2 * Math.PI * u2): a finite
\* deviate, or Infinity or -Infinity when Math.random() gives u1 = 0
Deviates == Normals \cup {PosInf, NegInf}

\* totalDemand of a trial whose days draw the deviates zs
TrialTotal(cfg, data, zs) ==
    LET demands == Demands(data)
        avgDemand == mean(demands)
        demandStdDev == stdDev(demands)
    IN  SumSeq([day \in 1..Len(zs) |->
                    Max0(Add(avgDemand, Mul(zs[day], demandStdDev)))])

\* a threshold that is the reorder point as calculateSafetyStock reports it
StockoutThresholdReported(cfg, data) ==
    calculateSafetyStock(cfg, data).reorderPoint

\* availableInventory + avgDemand * config.leadTime
StockoutThreshold(cfg, data) ==
    Add(calculateSafetyStock(cfg, data).safetyStock,
        Mul(mean(Demands(data)), cfg.leadTime))

\* a stockout test that also counts the trials it cannot compare
StockoutNotBelow(totalDemand, threshold) == ~Lt(totalDemand, threshold)

\* totalDemand > availableInventory + avgDemand * config.leadTime
Stockout(totalDemand, threshold) == Lt(threshold, totalDemand)

\* sortedSimulations[Math.floor((p / 100) * sortedSimulations.length)]
getPercentile(sortedSimulations, p) ==
    sortedSimulations[(p * Len(sortedSimulations)) \div 100 + 1]

Running(m) == m.kind = "running"

\* the call, up to the loop of the trials
StartSimulation(n) ==
    /\ mc = None
    /\ mc' = [ kind |-> "running", cfg |-> config, data |-> demandData,
               numSimulations |-> n, simulations |-> <<>>,
               stockoutCount |-> 0, days |-> 0 ]
    /\ UNCHANGED <<config, demandData, result, prevResult, costData,
                   optimalPoint, zCur, zPrev, pc, args, requests, fallbacks,
                   outcome, ret, passed, csv, es, app, savings>>

\* one pass of the loop over i
RunTrial ==
    /\ Running(mc)
    /\ Len(mc.simulations) < mc.numSimulations
    /\ \E zs \in [1..DaysOf(mc.cfg.leadTime) -> Deviates] :
         LET totalDemand == TrialTotal(mc.cfg, mc.data, zs)
             threshold == StockoutThreshold(mc.cfg, mc.data)
         IN  mc' = [ kind |-> "running", cfg |-> mc.cfg, data |-> mc.data,
                     numSimulations |-> mc.numSimulations,
                     days |-> Len(zs),
                     threshold |-> threshold,
                     simulations |-> Append(mc.simulations, totalDemand),
                     stockoutCount |->
                         IF Stockout(totalDemand, threshold)
                         THEN mc.stockoutCount + 1 ELSE mc.stockoutCount ]
    /\ UNCHANGED <<config, demandData, result, prevResult, costData,
                   optimalPoint, zCur, zPrev, pc, args, requests, fallbacks,
                   outcome, ret, passed, csv, es, app, savings>>

\* after the loop: the sort, the percentiles, the returned MonteCarloResult
ReturnSimulation ==
    /\ Running(mc)
    /\ Len(mc.simulations) = mc.numSimulations
    /\ LET sortedSimulations == SortAscending(mc.simulations)
       IN  mc' = [ kind |-> "returned", cfg |-> mc.cfg, data |-> mc.data,
                   numSimulations |-> mc.numSimulations,
                   drawn |-> mc.simulations, days |-> mc.days,
                   threshold |-> mc.threshold,
                   out |->
                     [ simulations |-> sortedSimulations,
                       stockoutCount |-> mc.stockoutCount,
                       stockoutProbability |->
                           Mul(DivCount(Fx(mc.stockoutCount),
                                        mc.numSimulations), Fx(100)),
                       meanDemand |-> mean(mc.simulations),
                       percentiles |->
                           [ p50 |-> getPercentile(sortedSimulations, 50),
                             p75 |-> getPercentile(sortedSimulations, 75),
                             p90 |-> getPercentile(sortedSimulations, 90),
                             p95 |-> getPercentile(sortedSimulations, 95),
                             p99 |-> getPercentile(sortedSimulations, 99) ] ] ]
    /\ UNCHANGED <<config, demandData, result, prevResult, costData,
                   optimalPoint, zCur, zPrev, pc, args, requests, fallbacks,
                   outcome, ret, passed, csv, es, app, savings>>

McConfigs ==
    [ serviceLevel : {Dbl(950)},
      leadTime : {Fx(1), 1200},
      leadTimeStdDev : {0, 1500},
      reviewPeriod : {Fx(1)},
      holdingCostPerUnit : {Fx(5)},
      stockoutCostPerUnit : {Fx(50)} ]

McSeries ==
    { d \in SeriesSet : Len(d) <= 2 /\ \A i \in 1..Len(d) : d[i].demand > 0 }

McInit ==
    /\ config \in McConfigs
    /\ demandData \in McSeries
    /\ result = None
    /\ prevResult = None
    /\ costData = <<>>
    /\ optimalPoint = None
    /\ zCur = None
    /\ zPrev = None
    /\ pc = None
    /\ args = None
    /\ requests = None
    /\ fallbacks = None
    /\ outcome = None
    /\ ret = None
    /\ mc = None
    /\ passed = <<>>
    /\ csv = None
    /\ es = None
    /\ app = None
    /\ savings = None

McNext ==
    \/ \E n \in 1..MaxRuns : StartSimulation(n)
    \/ RunTrial
    \/ ReturnSimulation

McSpec == McInit /\ [][McNext]_vars

-----------------------------------------------------------------------------
(* The operations of the engine on one configuration and one series *)

EngineNext ==
    \/ CallCalculateSafetyStock
    \/ RenderCostChart
    \/ \E n \in 1..NumSimulations : StartSimulation(n)
    \/ RunTrial
    \/ ReturnSimulation

EngineSpec == McInit /\ [][EngineNext]_vars

-----------------------------------------------------------------------------
(* generateDemoData: the series the application starts with and resets to *)

\* the days of demo data App asks for
DemoDays == 90

\* 20 * Math.sin((i * 2 * Math.PI) / 30) over one period
Seasonality ==
    <<0, 4158, 8135, 11756, 14863, 17321, 19021, 19890, 19890, 19021,
      17321, 14863, 11756, 8135, 4158, 0, -4158, -8135, -11756, -14863,
      -17321, -19021, -19890, -19890, -19021, -17321, -14863, -11756,
      -8135, -4158>>

\* the weekday effect, indexed by date.getDay() + 1
WeekdayEffect == <<Fx(1), 800, 800, 850, 900, 1200, 1300>>

\* Math.max(50, x)
Max50(a) ==
    LET f[x \in Int] == IF IsNaN(x) THEN NaN ELSE IF x < Fx(50) THEN Fx(50) ELSE x
    IN  f[a]

\* what (Math.random() - 0.5) * 20 makes of a draw of 0 and of a draw of 0.5,
\* and the weekdays the first day falls on
DemoDraws == { [noise |-> n, firstDay |-> d] : n \in {-Fx(10), 0}, d \in {0} }

\* the series of one call: day i (from 0) has trend 100 + i * 0.5, the
\* seasonality of its place in the month and the effect of its weekday
generateDemoData(days, draw) ==
    [ j \in 1..days |->
        [ date |-> j,
          demand |->
            Max50(Round(Add(Mul(Add(Fx(100) + (j - 1) * 500,
                                    Seasonality[((j - 1) % 30) + 1]),
                                WeekdayEffect[((draw.firstDay + j - 1) % 7) + 1]),
                            draw.noise))) ] ]

DemoSeries == { generateDemoData(DemoDays, draw) : draw \in DemoDraws }

-----------------------------------------------------------------------------
(* CSVUpload: handleFileChange and parseCSV, line by line *)

\* the day that date.toISOString().split('T')[0] names. A date written with
\* dashes is read as midnight UTC of its day; a date written month/day/year
\* is built as local midnight, which east of Greenwich is still the day
\* before in UTC
IsoDay(sep, day, eastOfUtc) == IF sep = "/" /\ eastOfUtc THEN day - 1 ELSE day

\* the lines a file may go on with after rows data rows were kept: a row of
\* too few values, a date without a separator, a date that is no date, a
\* demand that is no number or is negative, and rows that are kept
Rows(rows) ==
    { [kind |-> "short"],
      [kind |-> "row", sep |-> "none", day |-> 1, demand |-> Fx(10)],
      [kind |-> "row", sep |-> "-", day |-> NaN, demand |-> Fx(10)],
      [kind |-> "row", sep |-> "-", day |-> NaN, demand |-> NaN],
      [kind |-> "row", sep |-> "-", day |-> rows + 2, demand |-> NaN],
      [kind |-> "row", sep |-> "-", day |-> rows + 2, demand |-> -Fx(1)],
      [kind |-> "row", sep |-> "-", day |-> 2, demand |-> Fx(10)],
      [kind |-> "row", sep |-> "-", day |-> rows + 2, demand |-> 0],
      [kind |-> "row", sep |-> "/", day |-> rows + 2, demand |-> Fx(10)] }

\* data.sort((a, b) => new Date(a.date).getTime() - new Date(b.date).getTime()):
\* x goes in front of the sorted rest unless a row there has an earlier date
RECURSIVE InsertByDate(_, _)
InsertByDate(x, sorted) ==
    IF sorted = <<>> THEN <<x>>
    ELSE IF ~(Head(sorted).date < x.date) THEN <<x>> \o sorted
    ELSE <<Head(sorted)>> \o InsertByDate(x, Tail(sorted))

RECURSIVE SortByDate(_)
SortByDate(data) ==
    IF data = <<>> THEN <<>>
    ELSE InsertByDate(Head(data), SortByDate(Tail(data)))

Parsing(c) == c.kind = "parsing"

\* handleFileChange up to the loop of parseCSV: the text is split into lines
\* and the header is looked at
StartParse(hasRows, hasColumns, eastOfUtc) ==
    /\ csv = None
    /\ csv' = IF ~hasRows
                 THEN [kind |-> "rejected", error |-> "no data row"]
              ELSE IF ~hasColumns
                 THEN [kind |-> "rejected", error |-> "no date and demand columns"]
              ELSE [kind |-> "parsing", eastOfUtc |-> eastOfUtc, i |-> 1,
                    data |-> <<>>]
    /\ UNCHANGED <<config, demandData, result, prevResult, costData,
                   optimalPoint, zCur, zPrev, pc, args, requests, fallbacks,
                   outcome, ret, mc, passed, es, app, savings>>

\* one pass of the loop over the lines
ParseLine ==
    /\ Parsing(csv)
    /\ csv.i < MaxLines
    /\ \E line \in Rows(Len(csv.data)) :
         csv' =
           IF line.kind = "short" \/ line.sep = "none"
              THEN [csv EXCEPT !.i = @ + 1]
           ELSE IF IsNaN(line.demand) \/ line.demand < 0
              THEN [csv EXCEPT !.i = @ + 1]
           ELSE IF IsNaN(line.day)
              THEN [kind |-> "rejected", error |-> "RangeError"]
           ELSE [csv EXCEPT
                    !.i = @ + 1,
                    !.data = Append(@, [date |-> IsoDay(line.sep, line.day,
                                                        csv.eastOfUtc),
                                        demand |-> line.demand])]
    /\ UNCHANGED <<config, demandData, result, prevResult, costData,
                   optimalPoint, zCur, zPrev, pc, args, requests, fallbacks,
                   outcome, ret, mc, passed, es, app, savings>>

\* a finish that hands the rows kept so far to the application even when
\* they are too few
FinishParseInstalling ==
    /\ Parsing(csv)
    /\ csv.i >= 2
    /\ csv' = IF Len(csv.data) < MinRows
                 THEN [kind |-> "rejected", error |-> "fewer than 7 rows"]
                 ELSE [kind |-> "accepted", data |-> SortByDate(csv.data)]
    /\ demandData' = SortByDate(csv.data)
    /\ UNCHANGED <<config, result, prevResult, costData,
                   optimalPoint, zCur, zPrev, pc, args, requests, fallbacks,
                   outcome, ret, mc, passed, es, app, savings>>

\* after the last line: the length check, the sort, and onUpload(data), which
\* is App.handleDataUpload: setDemandData(newData)
FinishParse ==
    /\ Parsing(csv)
    /\ csv.i >= 2
    /\ IF Len(csv.data) < MinRows
          THEN /\ csv' = [kind |-> "rejected", error |-> "fewer than 7 rows"]
               /\ UNCHANGED demandData
          ELSE /\ csv' = [kind |-> "accepted", data |-> SortByDate(csv.data)]
               /\ demandData' = csv'.data
    /\ UNCHANGED <<config, result, prevResult, costData,
                   optimalPoint, zCur, zPrev, pc, args, requests, fallbacks,
                   outcome, ret, mc, passed, es, app, savings>>

\* CSVUpload.handleReset, open whenever no text is being parsed: onReset(),
\* which is App.handleResetDemo: setDemandData(generateDemoData(90)); then
\* the error and the success message are cleared
handleReset ==
    /\ ~Parsing(csv)
    /\ demandData' \in DemoSeries
    /\ csv' = None
    /\ UNCHANGED <<config, result, prevResult, costData,
                   optimalPoint, zCur, zPrev, pc, args, requests, fallbacks,
                   outcome, ret, mc, passed, es, app, savings>>

CsvNext ==
    \/ \E hasRows, hasColumns, eastOfUtc \in BOOLEAN :
          StartParse(hasRows, hasColumns, eastOfUtc)
    \/ ParseLine
    \/ FinishParse
    \/ handleReset

CsvSpec == SampleInit /\ [][CsvNext]_vars

-----------------------------------------------------------------------------
(* exponentialSmoothing, observation by observation *)

\* a step that gives the weights to the wrong operands
SmoothOnceSwapped(alpha, demand, smoothed) ==
    Add(Mul(Sub(Fx(1), alpha), demand), Mul(alpha, smoothed))

\* a step that does not weigh the level it carries
SmoothOnceUnweighted(alpha, demand, smoothed) ==
    Add(Mul(alpha, demand), smoothed)

\* alpha * demands[i] + (1 - alpha) * smoothed
SmoothOnce(alpha, demand, smoothed) ==
    Add(Mul(alpha, demand), Mul(Sub(Fx(1), alpha), smoothed))

Smoothing(e) == e.kind = "smoothing"

\* the call exponentialSmoothing(demandData, 0.3, periods) up to its first
\* loop; i is the place of the next observation
StartSmoothing(periods) ==
    /\ es = None
    /\ es' = [ kind |-> "smoothing", data |-> demandData, alpha |-> 300,
               periods |-> periods, i |-> 2,
               smoothed |-> IF demandData = <<>> THEN NaN
                            ELSE demandData[1].demand ]
    /\ UNCHANGED <<config, demandData, result, prevResult, costData,
                   optimalPoint, zCur, zPrev, pc, args, requests, fallbacks,
                   outcome, ret, mc, passed, csv, app, savings>>

\* one pass of the loop over the observations
SmoothStep ==
    /\ Smoothing(es)
    /\ es.i <= Len(es.data)
    /\ es' = [es EXCEPT
                 !.i = @ + 1,
                 !.smoothed = SmoothOnce(es.alpha, es.data[es.i].demand, @)]
    /\ UNCHANGED <<config, demandData, result, prevResult, costData,
                   optimalPoint, zCur, zPrev, pc, args, requests, fallbacks,
                   outcome, ret, mc, passed, csv, app, savings>>

\* after the loop: data[data.length - 1].date of an empty series is a
\* TypeError; otherwise the forecast of periods days is returned
ReturnForecast ==
    /\ Smoothing(es)
    /\ es.i > Len(es.data)
    /\ es' = IF es.data = <<>>
                THEN [kind |-> "threw", error |-> "TypeError", data |-> es.data,
                      periods |-> es.periods]
             ELSE [ kind |-> "returned", data |-> es.data,
                    periods |-> es.periods, smoothed |-> es.smoothed,
                    out |-> [ i \in 1..es.periods |->
                                [ date |-> es.data[Len(es.data)].date + i,
                                  demand |-> Round(es.smoothed),
                                  forecast |-> Round(es.smoothed) ] ] ]
    /\ UNCHANGED <<config, demandData, result, prevResult, costData,
                   optimalPoint, zCur, zPrev, pc, args, requests, fallbacks,
                   outcome, ret, mc, passed, csv, app, savings>>

\* demands of a series to be smoothed: whole numbers and fractions
SmoothDemands == {5, Fx(10), 12500, Fx(14)}

SmoothSeries ==
    { [i \in 1..len |-> [date |-> i, demand |-> ds[i]]] :
          len \in 0..MaxLen, ds \in [1..MaxLen -> SmoothDemands] }

SmoothInit ==
    /\ config = DefaultConfig
    /\ demandData \in SmoothSeries
    /\ result = None
    /\ prevResult = None
    /\ costData = <<>>
    /\ optimalPoint = None
    /\ zCur = None
    /\ zPrev = None
    /\ pc = None
    /\ args = None
    /\ requests = None
    /\ fallbacks = None
    /\ outcome = None
    /\ ret = None
    /\ mc = None
    /\ passed = <<>>
    /\ csv = None
    /\ es = None
    /\ app = None
    /\ savings = None

SmoothNext ==
    \/ \E periods \in 0..Periods : StartSmoothing(periods)
    \/ SmoothStep
    \/ ReturnForecast

SmoothSpec == SmoothInit /\ [][SmoothNext]_vars

-----------------------------------------------------------------------------
(* App: the state, the effect that recalculates, and the event handlers *)

\* calculateAll runs that may be awaiting their three calls at once
MaxInFlight == 2

Mounted(a) == a.kind = "app"

\* one run of calculateAll, which closes over the config and the series of
\* the render that started it
Run(cfg, data) == [config |-> cfg, data |-> data]

\* handleConfigChange called once for each update within one event: every
\* call is setConfig({ ...config, [key]: value }) with the config of the
\* render the handler belongs to, and the state set last is the one rendered
QueuedUpdates(cfg, updates) ==
    LET queue == [k \in 1..Len(updates) |->
                     [cfg EXCEPT ![updates[k].key] = updates[k].value]]
    IN  queue[Len(queue)]

\* useEffect(() => { calculateAll(); }, [config, demandData]) after a render
\* with a new config or a new series: setLoading(true), and the three calls
\* are made with that config and that series
Recalculate(a, cfg, data) ==
    [a EXCEPT !.loading = TRUE, !.inFlight = Append(@, Run(cfg, data))]

\* the quick presets of the configuration panel
Presets ==
    { [name |-> "Low Value", holdingCostPerUnit |-> Fx(2),
       stockoutCostPerUnit |-> Fx(20)],
      [name |-> "Standard", holdingCostPerUnit |-> Fx(5),
       stockoutCostPerUnit |-> Fx(50)],
      [name |-> "High Value", holdingCostPerUnit |-> Fx(10),
       stockoutCostPerUnit |-> Fx(100)],
      [name |-> "Critical", holdingCostPerUnit |-> Fx(20),
       stockoutCostPerUnit |-> Fx(200)] }

\* levels the slider is moved to, and lead times typed into the panel
AppSliderLevels == {Dbl(950), Dbl(990)}

PanelLeadTimes == {Fx(7), Fx(14)}

\* series an accepted upload hands over
UploadedSeries == {SampleSeries}

\* the slider, enabled while loading is false: handleServiceLevelChange, then
\* the effect
SliderChange(newLevel) ==
    /\ Mounted(app)
    /\ ~app.loading
    /\ Len(app.inFlight) < MaxInFlight
    /\ config' = [config EXCEPT !.serviceLevel = newLevel]
    /\ app' = Recalculate(app, config', demandData)
    /\ UNCHANGED <<demandData, result, prevResult, costData, optimalPoint,
                   zCur, zPrev, pc, args, requests, fallbacks, outcome, ret,
                   mc, passed, csv, es, savings>>

\* a number typed into a field of the configuration panel, enabled while
\* loading is false: handleChange, handleConfigChange, then the effect
PanelChange(key, value) ==
    /\ Mounted(app)
    /\ ~app.loading
    /\ Len(app.inFlight) < MaxInFlight
    /\ config' = QueuedUpdates(config, <<[key |-> key, value |-> value]>>)
    /\ app' = Recalculate(app, config', demandData)
    /\ UNCHANGED <<demandData, result, prevResult, costData, optimalPoint,
                   zCur, zPrev, pc, args, requests, fallbacks, outcome, ret,
                   mc, passed, csv, es, savings>>

\* a click on a quick preset, enabled while loading is false:
\* onChange('holdingCostPerUnit', ..); onChange('stockoutCostPerUnit', ..),
\* then the effect
PresetClick(preset) ==
    /\ Mounted(app)
    /\ ~app.loading
    /\ Len(app.inFlight) < MaxInFlight
    /\ config' = QueuedUpdates(config,
                     << [key |-> "holdingCostPerUnit",
                         value |-> preset.holdingCostPerUnit],
                        [key |-> "stockoutCostPerUnit",
                         value |-> preset.stockoutCostPerUnit] >>)
    /\ app' = Recalculate(app, config', demandData)
    /\ UNCHANGED <<demandData, result, prevResult, costData, optimalPoint,
                   zCur, zPrev, pc, args, requests, fallbacks, outcome, ret,
                   mc, passed, csv, es, savings>>

\* handleDataUpload, called by CSVUpload with the series of an accepted file
\* whether or not loading is true, then the effect
DataUpload(newData) ==
    /\ Mounted(app)
    /\ Len(app.inFlight) < MaxInFlight
    /\ demandData' = newData
    /\ app' = Recalculate(app, config, demandData')
    /\ UNCHANGED <<config, result, prevResult, costData, optimalPoint,
                   zCur, zPrev, pc, args, requests, fallbacks, outcome, ret,
                   mc, passed, csv, es, savings>>

\* handleResetDemo, called by CSVUpload whether or not loading is true, then
\* the effect
ResetDemo ==
    /\ Mounted(app)
    /\ Len(app.inFlight) < MaxInFlight
    /\ demandData' \in DemoSeries
    /\ app' = Recalculate(app, config, demandData')
    /\ UNCHANGED <<config, result, prevResult, costData, optimalPoint,
                   zCur, zPrev, pc, args, requests, fallbacks, outcome, ret,
                   mc, passed, csv, es, savings>>

\* the Promise.all of the i-th run in flight resolves, each of its three
\* calls having returned what the remote sent or what its local equivalent
\* computed from the run's config and series: setResults,
\* setMonteCarloResults, setForecast, and finally setLoading(false)
CalculateAllSettles(i) ==
    /\ Mounted(app)
    /\ i \in 1..Len(app.inFlight)
    /\ app' = [app EXCEPT
                  !.results = app.inFlight[i],
                  !.monteCarloResults = app.inFlight[i],
                  !.forecast = [data |-> app.inFlight[i].data],
                  !.loading = FALSE,
                  !.inFlight = [k \in 1..(Len(@) - 1) |->
                                   IF k < i THEN @[k] ELSE @[k + 1]]]
    /\ UNCHANGED <<config, demandData, result, prevResult, costData,
                   optimalPoint, zCur, zPrev, pc, args, requests, fallbacks,
                   outcome, ret, mc, passed, csv, es, savings>>

\* the application once mounted: the default config, a demo series, nothing
\* displayed, and the run the effect of the first render started
AppInit ==
    /\ config = DefaultConfig
    /\ demandData \in DemoSeries
    /\ result = None
    /\ prevResult = None
    /\ costData = <<>>
    /\ optimalPoint = None
    /\ zCur = None
    /\ zPrev = None
    /\ pc = None
    /\ args = None
    /\ requests = None
    /\ fallbacks = None
    /\ outcome = None
    /\ ret = None
    /\ mc = None
    /\ passed = <<>>
    /\ csv = None
    /\ es = None
    /\ app = [ kind |-> "app",
               loading |-> TRUE,
               results |-> None,
               monteCarloResults |-> None,
               forecast |-> None,
               inFlight |-> <<Run(config, demandData)>> ]
    /\ savings = None

AppNext ==
    \/ \E newLevel \in AppSliderLevels : SliderChange(newLevel)
    \/ \E value \in PanelLeadTimes : PanelChange("leadTime", value)
    \/ \E preset \in Presets : PresetClick(preset)
    \/ \E newData \in UploadedSeries : DataUpload(newData)
    \/ ResetDemo
    \/ \E i \in 1..MaxInFlight : CalculateAllSettles(i)

AppSpec == AppInit /\ [][AppNext]_vars

-----------------------------------------------------------------------------
(* Properties of calculateSafetyStock *)

HasNaN(out) == \E f \in DOMAIN out : IsNaN(out[f])

Flat(data) == \A i, j \in 1..Len(data) : data[i].demand = data[j].demand

\* the two configurations differ at most in serviceLevel
SameButServiceLevel(c1, c2) == [c1 EXCEPT !.serviceLevel = c2.serviceLevel] = c2

\* C4: calculateSafetyStock called with an empty demand series is rejected
\* with an error before any statistic is computed, and never returns a
\* result with a NaN field.
EmptySeriesRejected ==
    (result # None /\ result.data = <<>>) =>
        /\ result.kind = "threw"
        /\ ~(Returned(result) /\ HasNaN(result.out))

SafetyStockMonotone ==
    (/\ Returned(prevResult) /\ Returned(result)
     /\ result.data # <<>>
     /\ prevResult.data = result.data
     /\ SameButServiceLevel(prevResult.cfg, result.cfg)) =>
        /\ DblLeq(prevResult.cfg.serviceLevel, result.cfg.serviceLevel)
               => prevResult.out.safetyStock <= result.out.safetyStock
        /\ DblLeq(result.cfg.serviceLevel, prevResult.cfg.serviceLevel)
               => result.out.safetyStock <= prevResult.out.safetyStock

TwoLevelsComputed ==
    /\ Returned(prevResult) /\ Returned(result)
    /\ prevResult.data = result.data
    /\ SameButServiceLevel(prevResult.cfg, result.cfg)
    /\ prevResult.cfg.serviceLevel = Dbl(905)
    /\ result.cfg.serviceLevel = Dbl(945)
    /\ prevResult.out.safetyStock < result.out.safetyStock

-----------------------------------------------------------------------------
(* Properties of getZScore *)

Anchors ==
    << <<900, 1282>>, <<950, 1645>>, <<960, 1751>>, <<970, 1881>>,
       <<980, 2054>>, <<990, 2326>>, <<995, 2576>> >>

DblLt(a, b) == ~DblLeq(b, a)

\* z is the value at s of the line through two adjacent anchors lo and hi
OnSegment(s, z, lo, hi) ==
    z * (hi[1] - lo[1]) = ZUnit * (lo[2] * (hi[1] - s.n) + hi[2] * (s.n - lo[1]))

ReferenceTable(s, z) ==
    /\ \A i \in 1..Len(Anchors) :
           s = Dbl(Anchors[i][1]) => z = Anchors[i][2] * ZUnit
    /\ \A i \in 1..(Len(Anchors) - 1) :
           (DblLt(Dbl(Anchors[i][1]), s) /\ DblLt(s, Dbl(Anchors[i + 1][1])))
               => OnSegment(s, z, Anchors[i], Anchors[i + 1])
    /\ DblLt(s, Dbl(900)) => z = 1282 * ZUnit
    /\ DblLt(Dbl(995), s) => z = 2576 * ZUnit
    /\ s = Dbl(955) => z = 1698 * ZUnit

\* C7: getZScore is the piecewise-linear table: the anchor z at the seven
\* anchors, the linear interpolation between adjacent anchors (0.955 gives
\* 1.698), 1.282 below 0.90 and 2.576 above 0.995.
ZScoreIsReferenceTable ==
    ZApplied(zCur) => ReferenceTable(zCur.arg, zCur.ret)

ZScoreInterpolated ==
    /\ ZApplied(zCur) /\ ZApplied(zPrev)
    /\ zCur.arg = Dbl(955) /\ zCur.ret = 1698 * ZUnit
    /\ zPrev.arg = Dbl(1000) /\ zPrev.ret = 2576 * ZUnit

InDomain(s) == DblLeq(Dbl(900), s) /\ DblLeq(s, Dbl(995))

\* C8: getZScore is non-decreasing over [0.90, 0.995].
ZScoreMonotone ==
    (/\ ZApplied(zPrev) /\ ZApplied(zCur)
     /\ InDomain(zPrev.arg) /\ InDomain(zCur.arg)
     /\ DblLeq(zPrev.arg, zCur.arg)) => zPrev.ret <= zCur.ret

ZScoreTwoLevels ==
    /\ ZApplied(zPrev) /\ ZApplied(zCur)
    /\ zPrev.arg = Dbl(952) /\ zCur.arg = Dbl(958)
    /\ zPrev.ret < zCur.ret

-----------------------------------------------------------------------------
(* Properties of the cost sweep *)

Swept == optimalPoint # None

\* the grid 0.90, 0.905, ..., 0.995
DefaultGrid == { 900 + 5 * k : k \in 0..19 }

GridCost(g) ==
    calculateSafetyStock([config EXCEPT !.serviceLevel = Dbl(g)],
                         demandData).totalCost

\* C9: the reported optimal point costs no more than any point of the grid
\* 0.90..0.995 (step 0.005).
OptimalIsGridMinimum ==
    (Swept /\ demandData # <<>>) =>
        \A g \in DefaultGrid : optimalPoint.totalCost <= GridCost(g)

\* C10: when several swept points share the minimum totalCost, the reported
\* optimal point is the one with the lowest serviceLevel.
TieGoesToLowestLevel ==
    (Swept /\ demandData # <<>>) =>
        \A i \in 1..Len(costData) :
            /\ optimalPoint.totalCost <= costData[i].totalCost
            /\ costData[i].totalCost = optimalPoint.totalCost
                   => DblLeq(optimalPoint.serviceLevelNum,
                             costData[i].serviceLevelNum)

SweptWithTie ==
    /\ Swept /\ demandData # <<>>
    /\ config.stockoutCostPerUnit = 0 /\ config.holdingCostPerUnit > 0
    /\ optimalPoint = costData[1]
    /\ \E i \in 2..Len(costData) :
           costData[i].totalCost = optimalPoint.totalCost

-----------------------------------------------------------------------------
(* Properties of the remote-with-fallback calls *)

\* v is what the local equivalent of call c gives for the arguments a and
\* the random source rnd
IsLocalEquivalent(c, a, rnd, v) ==
    CASE c = "getForecast" -> v = getForecastFallback(a.data, Periods)
      [] c = "calculateOptimalSafetyStock" -> v = calculateSafetyStock(a.cfg, a.data)
      [] c = "runSimulation" ->
             v = runMonteCarloSimulation(a.cfg, a.data, NumSimulations, rnd)

\* C1: for a non-empty series each call returns the remote response when the
\* request succeeds and the result of its local equivalent when it fails in
\* any way; a remote failure is never propagated.
RemoteOrLocalResult ==
    \A c \in Calls :
        (pc[c] # "idle" /\ args[c].data # <<>>) =>
            /\ pc[c] # "threw"
            /\ outcome[c].kind = "success" =>
                   /\ pc[c] = "returned"
                   /\ ret[c] = [kind |-> "remote", data |-> outcome[c].data]
            /\ outcome[c].kind \in FailureKinds =>
                   /\ pc[c] = "returned"
                   /\ ret[c].kind = "local"
                   /\ IsLocalEquivalent(c, args[c], outcome[c].rnd, ret[c].data)

AllThreeReturned ==
    /\ \A c \in Calls : pc[c] = "returned" /\ args[c].data # <<>>
    /\ outcome["getForecast"].kind = "timeout"
    /\ ret["getForecast"].kind = "local"
    /\ outcome["calculateOptimalSafetyStock"].kind = "success"
    /\ ret["calculateOptimalSafetyStock"].kind = "remote"
    /\ outcome["runSimulation"].kind = "nonSuccess"
    /\ ret["runSimulation"].kind = "local"

\* C2, as stated: every call of getForecast that is waiting for the remote
\* eventually returns a ForecastResult.
GetForecastAlwaysReturns ==
    (pc["getForecast"] = "awaiting") ~> (pc["getForecast"] = "returned")

\* C2, amended: every call of getForecast that is waiting for the remote
\* eventually stops waiting, and on a non-empty series it eventually returns
\* a ForecastResult.
GetForecastCompletes ==
    /\ (pc["getForecast"] = "awaiting") ~> Settled("getForecast")
    /\ (pc["getForecast"] = "awaiting" /\ args["getForecast"].data # <<>>)
           ~> (pc["getForecast"] = "returned")

ForecastAfterTimeout ==
    /\ pc["getForecast"] = "returned"
    /\ args["getForecast"].data # <<>>
    /\ outcome["getForecast"].kind = "timeout"
    /\ ret["getForecast"].kind = "local"

\* C3: a call sends at most one request; its fallback runs at most once, and
\* only after that request has failed.
SingleAttemptThenFallback ==
    \A c \in Calls :
        pc[c] # "idle" =>
            /\ requests[c] <= 1
            /\ fallbacks[c] <= 1
            /\ fallbacks[c] = 1 <=> outcome[c].kind \in FailureKinds
            /\ outcome[c].kind = "success" => fallbacks[c] = 0
            /\ pc[c] = "awaiting" => (requests[c] = 1 /\ fallbacks[c] = 0)

FallbackAfterOneRequest ==
    /\ pc["runSimulation"] = "returned"
    /\ requests["runSimulation"] = 1
    /\ fallbacks["runSimulation"] = 1
    /\ outcome["runSimulation"].kind = "unreachable"
    /\ pc["getForecast"] = "returned"
    /\ requests["getForecast"] = 1
    /\ fallbacks["getForecast"] = 0
    /\ outcome["getForecast"].kind = "success"

-----------------------------------------------------------------------------
(* Properties of runMonteCarloSimulation *)

\* the trials of the run m whose total strictly exceeds the threshold
Exceeding(m) ==
    { i \in 1..Len(m.drawn) :
        Lt(StockoutThreshold(m.cfg, m.data), m.drawn[i]) }

\* C11: for a run of N trials, whatever the random values, stockoutCount is
\* an integer in 0..N, it is the number of trials whose total demand
\* strictly exceeds the threshold, and stockoutProbability is
\* stockoutCount / N * 100.
StockoutCountIsExceedingTrials ==
    /\ (mc # None /\ Running(mc)) =>
           mc.stockoutCount \in 0..Len(mc.simulations)
    /\ (mc # None /\ Returned(mc)) =>
           /\ Len(mc.drawn) = mc.numSimulations
           /\ mc.out.stockoutCount \in 0..mc.numSimulations
           /\ mc.out.stockoutCount = Cardinality(Exceeding(mc))
           /\ mc.out.stockoutProbability =
                  Mul(DivCount(Fx(mc.out.stockoutCount), mc.numSimulations),
                      Fx(100))

SomeTrialsExceed ==
    /\ mc # None
    /\ Returned(mc)
    /\ mc.numSimulations = 4
    /\ mc.out.stockoutCount = 1
    /\ mc.out.stockoutProbability = Fx(25)
    /\ \E i \in 1..4 : ~IsInf(mc.drawn[i]) /\ i \in Exceeding(mc)

\* the places of the sorted totals that the percentiles are read from
PercentileIndex(p, n) == (p * n) \div 100

\* C12: for every N >= 1 each of p50, p75, p90, p95, p99 is the element of
\* the sorted totals at index floor(p / 100 * N), that index lies in
\* 0..N-1, and p50 <= p75 <= p90 <= p95 <= p99.
PercentilesOrdered ==
    (mc # None /\ Returned(mc)) =>
        LET n == mc.numSimulations
            sorted == mc.out.simulations
            ps == mc.out.percentiles
        IN  /\ \A p \in {50, 75, 90, 95, 99} : PercentileIndex(p, n) \in 0..(n - 1)
            /\ ps.p50 = sorted[PercentileIndex(50, n) + 1]
            /\ ps.p75 = sorted[PercentileIndex(75, n) + 1]
            /\ ps.p90 = sorted[PercentileIndex(90, n) + 1]
            /\ ps.p95 = sorted[PercentileIndex(95, n) + 1]
            /\ ps.p99 = sorted[PercentileIndex(99, n) + 1]
            /\ Leq(ps.p50, ps.p75)
            /\ Leq(ps.p75, ps.p90)
            /\ Leq(ps.p90, ps.p95)
            /\ Leq(ps.p95, ps.p99)

\* s is a rearrangement of t
IsPermutation(s, t) ==
    /\ Len(s) = Len(t)
    /\ \E f \in [1..Len(s) -> 1..Len(s)] :
          /\ \A i, j \in 1..Len(s) : i # j => f[i] # f[j]
          /\ \A i \in 1..Len(s) : s[i] = t[f[i]]

\* C13: the simulations field of the result has exactly N elements, is
\* sorted ascending, and is a permutation of the N trial totals.
SimulationsSortedPermutation ==
    (mc # None /\ Returned(mc)) =>
        LET sorted == mc.out.simulations
        IN  /\ Len(sorted) = mc.numSimulations
            /\ \A i \in 1..(Len(sorted) - 1) : Leq(sorted[i], sorted[i + 1])
            /\ IsPermutation(sorted, mc.drawn)

-----------------------------------------------------------------------------
(* Purity and frame of the engine *)

-----------------------------------------------------------------------------
(* Numerical properties of calculateSafetyStock *)

OnSample(r) == Returned(r) /\ r.cfg = DefaultConfig /\ r.data = SampleSeries

\* 1.645 * sqrt(7 * sd^2 + avg^2 * 1.5^2), rounded, for the sample series
SampleSafetyStock ==
    LET avg == mean(Demands(SampleSeries))
        sd == stdDev(Demands(SampleSeries))
    IN  Round(MulZ((1645 * ZScale) \div 1000,
                   Sqrt(Add(Mul(Fx(7), Mul(sd, sd)),
                            Mul(Mul(avg, avg), Mul(1500, 1500))))))

\* C16: for the seven days of demand 120, 135, 128, 142, 115, 130, 125 and
\* the configuration (0.95, lead time 7, lead time deviation 1.5, holding
\* cost 5, stockout cost 50) calculateSafetyStock returns averageDemand
\* 127.86, demandStdDev 8.85 and safetyStock the rounded value of
\* 1.645 * sqrt(7 * demandStdDev^2 + averageDemand^2 * 1.5^2).
GoldenScenarioAsStated ==
    OnSample(result) =>
        /\ result.out.averageDemand = 127860
        /\ result.out.demandStdDev = 8850
        /\ result.out.safetyStock = SampleSafetyStock

\* C16, amended: the same scenario returns averageDemand 127.86,
\* demandStdDev 8.37 (the population standard deviation of the series) and
\* safetyStock 318, the rounded value of the formula.
GoldenScenario ==
    OnSample(result) =>
        /\ result.out.averageDemand = 127860
        /\ result.out.demandStdDev = 8370
        /\ result.out.safetyStock = SampleSafetyStock
        /\ result.out.safetyStock = Fx(318)

GoldenScenarioComputed ==
    /\ OnSample(result)
    /\ result.out.averageDemand = 127860
    /\ result.out.safetyStock = Fx(318)

-----------------------------------------------------------------------------
(* The local forecast *)

\* C17: when the remote forecast fails on a series of 7 days of demand 100,
\* the forecast computed locally is 100 for every day of the horizon, and
\* the lower and the upper confidence bound are both 100.
FlatForecast ==
    (pc["getForecast"] = "returned" /\ ret["getForecast"].kind = "local") =>
        LET f == ret["getForecast"].data
        IN  /\ Len(f.forecast) = Periods
            /\ Len(f.confidence.lower) = Periods
            /\ Len(f.confidence.upper) = Periods
            /\ \A i \in 1..Periods :
                  /\ f.forecast[i].demand = Fx(100)
                  /\ f.forecast[i].forecast = Fx(100)
                  /\ f.confidence.lower[i] = Fx(100)
                  /\ f.confidence.upper[i] = Fx(100)

FlatForecastReturned ==
    /\ pc["getForecast"] = "returned"
    /\ ret["getForecast"].kind = "local"
    /\ outcome["getForecast"].kind = "nonSuccess"
    /\ Len(args["getForecast"].data) = 7
    /\ \A i \in 1..7 : args["getForecast"].data[i].demand = Fx(100)
    /\ ret["getForecast"].data.forecast[Periods].demand = Fx(100)

-----------------------------------------------------------------------------
(* The series that an upload hands to the application *)

\* C18: a series accepted by the upload has at least 7 distinct calendar
\* dates, at most one observation for each date, is ordered by date
\* ascending, and has non-negative demands; any other input is rejected.
AcceptedSeriesWellFormed ==
    (csv # None /\ csv.kind = "accepted") =>
        /\ demandData = csv.data
        /\ Cardinality({ demandData[i].date : i \in 1..Len(demandData) }) >= 7
        /\ \A i, j \in 1..Len(demandData) :
              i < j => demandData[i].date < demandData[j].date
        /\ \A i \in 1..Len(demandData) : demandData[i].demand >= 0

-----------------------------------------------------------------------------
(* The reported costs and the reorder point *)

\* z * sqrt(leadTime * demandStdDev^2 + avgDemand^2 * leadTimeStdDev^2),
\* not rounded
UnroundedSafetyStock(cfg, data) ==
    LET avg == mean(Demands(data))
        sd == stdDev(Demands(data))
    IN  MulZ(getZScore(cfg.serviceLevel),
             Sqrt(Add(Mul(cfg.leadTime, Mul(sd, sd)),
                      Mul(Mul(avg, avg),
                          Mul(cfg.leadTimeStdDev, cfg.leadTimeStdDev)))))

\* safetyStock * holdingCostPerUnit, not rounded
UnroundedHoldingCost(cfg, data) ==
    Mul(UnroundedSafetyStock(cfg, data), cfg.holdingCostPerUnit)

\* avgDemand * 365 * (1 - serviceLevel) * stockoutCostPerUnit, not rounded
UnroundedStockoutCost(cfg, data) ==
    Mul(Mul(Mul(mean(Demands(data)), Fx(365)),
            Sub(Fx(1), SLValue(cfg.serviceLevel))),
        cfg.stockoutCostPerUnit)

\* |a - b| <= 1 on whole numbers of units
WithinOneUnit(a, b) == Leq(Sub(a, b), Fx(1)) /\ Leq(Sub(b, a), Fx(1))

\* C19: in every result for a non-empty series the reported totalCost is
\* the sum of the reported expectedAnnualHoldingCost and the reported
\* expectedAnnualStockoutCost.
TotalCostIsSumOfReported ==
    (Returned(result) /\ result.data # <<>>) =>
        result.out.totalCost =
            Add(result.out.expectedAnnualHoldingCost,
                result.out.expectedAnnualStockoutCost)

\* C19, amended: the reported totalCost is the rounding of the sum of the
\* unrounded costs, and is within one unit of the sum of the reported
\* expectedAnnualHoldingCost and expectedAnnualStockoutCost.
TotalCostWithinOneOfReported ==
    (Returned(result) /\ result.data # <<>>) =>
        /\ WithinOneUnit(result.out.totalCost,
                         Add(result.out.expectedAnnualHoldingCost,
                             result.out.expectedAnnualStockoutCost))
        /\ LET holding == UnroundedHoldingCost(result.cfg, result.data)
               stockout == UnroundedStockoutCost(result.cfg, result.data)
           IN  /\ result.out.expectedAnnualHoldingCost = Round(holding)
               /\ result.out.expectedAnnualStockoutCost = Round(stockout)
               /\ result.out.totalCost = Round(Add(holding, stockout))

TotalCostOffByOne ==
    /\ Returned(result)
    /\ result.data # <<>>
    /\ result.out.expectedAnnualHoldingCost > 0
    /\ result.out.expectedAnnualStockoutCost > 0
    /\ result.out.totalCost #
           Add(result.out.expectedAnnualHoldingCost,
               result.out.expectedAnnualStockoutCost)

\* C20: in every result for a non-empty series reorderPoint is the rounding
\* to the nearest integer of avgDemand * leadTime + safetyStock, taken with
\* the unrounded mean and the unrounded safety stock; so for demand that is
\* not negative reorderPoint >= safetyStock.
ReorderPointFromUnrounded ==
    (Returned(result) /\ result.data # <<>>) =>
        /\ result.out.reorderPoint =
               Round(Add(Mul(mean(Demands(result.data)), result.cfg.leadTime),
                         UnroundedSafetyStock(result.cfg, result.data)))
        /\ (\A i \in 1..Len(result.data) : result.data[i].demand >= 0) =>
               Leq(result.out.safetyStock, result.out.reorderPoint)

ReorderPointAboveSafetyStock ==
    /\ Returned(result)
    /\ result.data # <<>>
    /\ result.out.safetyStock > 0
    /\ result.out.reorderPoint > result.out.safetyStock
    /\ result.out.reorderPoint #
           Round(Add(Mul(mean(Demands(result.data)), result.cfg.leadTime),
                     result.out.safetyStock))

-----------------------------------------------------------------------------
(* Properties of exponentialSmoothing *)

\* the level after the observations up to place n: the first observation,
\* then 0.3 * demand + 0.7 * level for each later one in order
RECURSIVE LevelAfter(_, _)
LevelAfter(data, n) ==
    IF n = 1 THEN data[1].demand
    ELSE Add(Mul(300, data[n].demand), Mul(700, LevelAfter(data, n - 1)))

\* C21: for any non-empty series and horizon h the local forecast has
\* exactly h entries, and the demand of every entry is the final smoothed
\* value: the first observation, then smoothed = 0.3 * demand + 0.7 *
\* smoothed for each later observation in order.
ForecastIsFinalLevel ==
    (es # None /\ Returned(es)) =>
        /\ Len(es.out) = es.periods
        /\ \A i \in 1..Len(es.out) :
              es.out[i].demand = LevelAfter(es.data, Len(es.data))

\* C21, amended: the forecast has exactly h entries, and the demand of
\* every entry is the final smoothed value rounded to the nearest integer.
ForecastIsRoundedFinalLevel ==
    (es # None /\ Returned(es)) =>
        /\ es.data # <<>>
        /\ Len(es.out) = es.periods
        /\ es.smoothed = LevelAfter(es.data, Len(es.data))
        /\ \A i \in 1..Len(es.out) :
              /\ es.out[i].demand = Round(LevelAfter(es.data, Len(es.data)))
              /\ es.out[i].forecast = es.out[i].demand

RoundedForecastReturned ==
    /\ es # None
    /\ Returned(es)
    /\ Len(es.data) = 3
    /\ es.periods = 2
    /\ es.smoothed = 12040
    /\ es.out[1].demand = Fx(12)
    /\ es.out[2].demand = Fx(12)

\* the least and the greatest demand among the first n observations
MinDemand(data, n) ==
    CHOOSE d \in { data[i].demand : i \in 1..n } :
        \A i \in 1..n : d <= data[i].demand

MaxDemand(data, n) ==
    CHOOSE d \in { data[i].demand : i \in 1..n } :
        \A i \in 1..n : d >= data[i].demand

Between(lo, x, hi) == Leq(lo, x) /\ Leq(x, hi)

WholeDemands(data) == \A i \in 1..Len(data) : data[i].demand % Scale = 0

\* C30: for any non-empty series, after every step of the recurrence the
\* smoothed value lies between the least and the greatest of the
\* observations processed so far, so every forecast demand lies within
\* [min demand, max demand] of the series (for whole-number demands, also
\* after rounding).
SmoothedWithinObservations ==
    /\ (es # None /\ Smoothing(es) /\ es.data # <<>>) =>
           Between(MinDemand(es.data, es.i - 1), es.smoothed,
                   MaxDemand(es.data, es.i - 1))
    /\ (es # None /\ Returned(es)) =>
           /\ Between(MinDemand(es.data, Len(es.data)), es.smoothed,
                      MaxDemand(es.data, Len(es.data)))
           /\ WholeDemands(es.data) =>
                  \A i \in 1..Len(es.out) :
                      Between(MinDemand(es.data, Len(es.data)),
                              es.out[i].demand,
                              MaxDemand(es.data, Len(es.data)))

\* the rounding of the two products of a step can carry the level past an
\* observation by less than two units of the last place kept
RoundingSlack == 2

\* C30, amended: after every step the smoothed value lies between the
\* least and the greatest of the observations processed so far up to the
\* rounding error of the arithmetic, and for whole-number demands every
\* forecast demand, which is rounded, lies within [min demand, max demand].
SmoothedWithinObservationsRounded ==
    /\ (es # None /\ Smoothing(es) /\ es.data # <<>>) =>
           Between(Sub(MinDemand(es.data, es.i - 1), RoundingSlack),
                   es.smoothed,
                   Add(MaxDemand(es.data, es.i - 1), RoundingSlack))
    /\ (es # None /\ Returned(es)) =>
           /\ Between(Sub(MinDemand(es.data, Len(es.data)), RoundingSlack),
                      es.smoothed,
                      Add(MaxDemand(es.data, Len(es.data)), RoundingSlack))
           /\ WholeDemands(es.data) =>
                  \A i \in 1..Len(es.out) :
                      Between(MinDemand(es.data, Len(es.data)),
                              es.out[i].demand,
                              MaxDemand(es.data, Len(es.data)))

SmoothedStrictlyInside ==
    /\ es # None
    /\ Returned(es)
    /\ Len(es.data) = 3
    /\ WholeDemands(es.data)
    /\ es.periods = 2
    /\ MinDemand(es.data, 3) < es.smoothed
    /\ es.smoothed < MaxDemand(es.data, 3)
    /\ es.out[2].demand = Fx(13)

\* C22: in the ForecastResult of the local fallback of getForecast the
\* lower and the upper bounds are as many as the forecast days, and for
\* every day lower = demand - 1.96 * sd and upper = demand + 1.96 * sd with
\* sd the population standard deviation of the historical demand; so the
\* bounds are the same on every day and lower <= demand <= upper.
ConfidenceBoundsAligned ==
    (pc["getForecast"] = "returned" /\ ret["getForecast"].kind = "local") =>
        LET f == ret["getForecast"].data
            sd == stdDev(Demands(args["getForecast"].data))
            n == Len(f.forecast)
        IN  /\ f.historical = args["getForecast"].data
            /\ Len(f.confidence.lower) = n
            /\ Len(f.confidence.upper) = n
            /\ f.demandStdDev = sd
            /\ \A i \in 1..n :
                  /\ f.confidence.lower[i] =
                         Sub(f.forecast[i].demand, Mul(1960, sd))
                  /\ f.confidence.upper[i] =
                         Add(f.forecast[i].demand, Mul(1960, sd))
                  /\ Leq(f.confidence.lower[i], f.forecast[i].demand)
                  /\ Leq(f.forecast[i].demand, f.confidence.upper[i])
            /\ \A i, j \in 1..n :
                  /\ f.confidence.lower[i] = f.confidence.lower[j]
                  /\ f.confidence.upper[i] = f.confidence.upper[j]

BoundsAroundForecast ==
    /\ pc["getForecast"] = "returned"
    /\ ret["getForecast"].kind = "local"
    /\ Len(ret["getForecast"].data.forecast) = 2
    /\ ret["getForecast"].data.demandStdDev = Fx(2)
    /\ ret["getForecast"].data.forecast[2].demand = Fx(11)
    /\ ret["getForecast"].data.confidence.lower[2] = 7080
    /\ ret["getForecast"].data.confidence.upper[2] = 14920

-----------------------------------------------------------------------------
(* The cost delta of CostChart *)

\* totalCost of calculateSafetyStock for the service level the chart was
\* rendered with
CurrentTotalCost ==
    calculateSafetyStock(
        [config EXCEPT !.serviceLevel = savings.currentServiceLevel],
        demandData).totalCost

\* C23: the cost delta shown for the current service level is the totalCost
\* calculateSafetyStock gives for that level minus the totalCost of the
\* optimal point; it is never negative, and it is 0 only when the current
\* level costs the same as the optimal point.
CostDeltaIsCurrentMinusOptimal ==
    (savings # None /\ demandData # <<>>) =>
        /\ savings.savingsVsOptimal =
               Sub(CurrentTotalCost, optimalPoint.totalCost)
        /\ Leq(0, savings.savingsVsOptimal)
        /\ savings.savingsVsOptimal = 0 =>
               CurrentTotalCost = optimalPoint.totalCost

-----------------------------------------------------------------------------
(* Lead time in runMonteCarloSimulation *)

\* a lead time as a whole number of days: floored, or rounded to the nearest
WholeDays(leadTime) == {leadTime \div Scale, RoundDiv(leadTime, Scale)}

\* C24: runMonteCarloSimulation treats leadTime as one whole number of days:
\* for a fractional leadTime each trial sums as many daily samples as the
\* rounded or floored lead time, and the stockout threshold
\* availableInventory + avgDemand * leadTime uses that same whole number.
LeadTimeOneWholeNumber ==
    (mc # None /\ Returned(mc) /\ mc.data # <<>>) =>
        \E w \in WholeDays(mc.cfg.leadTime) :
            /\ mc.days = w
            /\ StockoutThreshold(mc.cfg, mc.data) =
                   Add(calculateSafetyStock(mc.cfg, mc.data).safetyStock,
                       Mul(mean(Demands(mc.data)), Fx(w)))

\* C25: the stockout threshold of runMonteCarloSimulation,
\* availableInventory + avgDemand * leadTime with availableInventory the
\* safetyStock that calculateSafetyStock returns, equals the reorderPoint
\* that calculateSafetyStock returns for the same config and series.
ThresholdIsReorderPoint ==
    (mc # None /\ Returned(mc) /\ mc.data # <<>>) =>
        mc.threshold = calculateSafetyStock(mc.cfg, mc.data).reorderPoint

\* C25, amended: the threshold is the reported (rounded) safetyStock plus
\* the unrounded avgDemand * leadTime; it is within one unit of the
\* reported reorderPoint, which rounds avgDemand * leadTime + safetyStock
\* as a whole.
ThresholdWithinOneOfReorderPoint ==
    (mc # None /\ Returned(mc) /\ mc.data # <<>>) =>
        /\ mc.threshold =
               Add(Round(UnroundedSafetyStock(mc.cfg, mc.data)),
                   Mul(mean(Demands(mc.data)), mc.cfg.leadTime))
        /\ Lt(Sub(mc.threshold,
                  calculateSafetyStock(mc.cfg, mc.data).reorderPoint), Fx(1))
        /\ Lt(Sub(calculateSafetyStock(mc.cfg, mc.data).reorderPoint,
                  mc.threshold), Fx(1))

ThresholdOffReorderPoint ==
    /\ mc # None
    /\ Returned(mc)
    /\ Len(mc.data) = 2
    /\ mc.cfg.leadTime = 1200
    /\ mc.cfg.leadTimeStdDev = 0
    /\ mc.data[1].demand # mc.data[2].demand
    /\ mc.threshold # calculateSafetyStock(mc.cfg, mc.data).reorderPoint

-----------------------------------------------------------------------------
(* Properties of a rejected upload *)

\* C29: a step of an upload that ends in its rejection leaves the demand
\* series as it was and sets an error message; and a step that changes the
\* series replaces it either with the whole sorted series of an accepted
\* upload or with the series of a demo reset.
RejectedUploadKeepsSeries ==
    [][ /\ (csv'.kind = "rejected" /\ csv.kind # "rejected")
           => /\ demandData' = demandData
              /\ csv'.error # ""
        /\ demandData' # demandData
           => \/ /\ Parsing(csv)
                 /\ csv'.kind = "accepted"
                 /\ Len(csv.data) >= MinRows
                 /\ demandData' = SortByDate(csv.data)
              \/ /\ csv' = None
                 /\ demandData' \in DemoSeries ]_vars

\* an upload was rejected after the series had been reset to demo data, and
\* the demo data are still in place
RejectedUploadAfterReset ==
    /\ csv.kind = "rejected"
    /\ demandData \in DemoSeries

-----------------------------------------------------------------------------
(* Properties of the application *)

\* C26: whenever no run of calculateAll is in flight, the displayed results,
\* monteCarloResults and forecast are the ones computed from the current
\* config and the current demand series.
DisplayedIsCurrent ==
    (Mounted(app) /\ app.inFlight = <<>>)
        => /\ app.results = Run(config, demandData)
           /\ app.monteCarloResults = Run(config, demandData)
           /\ app.forecast = [data |-> demandData]

\* C27: loading is true whenever at least one run of calculateAll is in
\* flight.
LoadingWhileInFlight ==
    (Mounted(app) /\ app.inFlight # <<>>) => app.loading

\* C28: a click on a quick preset leaves the config with the preset's
\* holdingCostPerUnit and stockoutCostPerUnit and every other field as it was.
PresetSetsBothCosts ==
    [][ \A preset \in Presets :
          PresetClick(preset)
             => config' = [config EXCEPT
                   !.holdingCostPerUnit = preset.holdingCostPerUnit,
                   !.stockoutCostPerUnit = preset.stockoutCostPerUnit] ]_vars

====
